---- MODULE Spec2Model ----
(***************************************************************************)
(* The resumable bulk-fetch core of the NOAA fetchers:                     *)
(*   offset mode : DataAcqusitionLab/make_requests.py                      *)
(*   date mode   : NOAAMonthlySummaries/.../fetch_monthly_data.py          *)
(* The Persisted Chunk Store is the directory the scripts write to, the    *)
(* remote API is a nondeterministic choice of a response per request.      *)
(***************************************************************************)
EXTENDS Integers, Sequences, FiniteSets, TLC

VARIABLES
    mode,            \* "offset" | "date": which script runs
    cfg,             \* the module-level configuration constants of the script
    store,           \* the directory: filename -> [complete, payload, fresh]
    run,             \* number of the current invocation of main()
    pc,              \* position of main() in the current invocation
    chunks,          \* the planned chunks (range(num_requests) / date_ranges)
    existing_files,  \* result of check_existing_files() at the start of main()
    i,               \* loop index of main(), 0-based
    successful,      \* successful_requests / successful
    failed,          \* failed_requests / failed
    retry_count,     \* make_api_request's retry_count argument
    data,            \* first component of make_api_request's result
    error,           \* second component of make_api_request's result
    history,         \* classes of the responses received by the current executor call
    waits,           \* time.sleep() calls taken inside the current executor call
    completed,       \* identifiers counted in successful this run
    invoked,         \* identifiers the executor was invoked on this run
    requests,        \* number of requests issued this run
    pauses,          \* identifiers after which the inter-request delay was slept
    storage_error,   \* whether a save failed during this run
    final_files,     \* result of check_existing_files() for the final summary
    prev             \* summary of the previous invocation

vars == <<mode, cfg, store, run, pc, chunks, existing_files, i, successful,
          failed, retry_count, data, error, history, waits, completed, invoked,
          requests, pauses, storage_error, final_files, prev>>

(***************************************************************************)
(* Program constants                                                       *)
(***************************************************************************)
TOTAL_RECORDS == 38859
LIMIT == 1000
DELAY_BETWEEN_REQUESTS == 2
MAX_RETRIES == 3
PROBE_RANGE == 39
START_YEAR == 1938
END_YEAR == 2018
CHUNK_SIZE == 10
DATE_DELAY == 2
BACKOFF_STEP == 5
RATE_LIMIT_WAIT == 30
NETWORK_WAIT == 5

(***************************************************************************)
(* Bounds of the model                                                     *)
(***************************************************************************)
MaxUnits == 2        \* run model: total units (records / years) is 1..MaxUnits
MaxChunkSize == 2    \* run model: chunk size is 1..MaxChunkSize
MaxRuns == 2         \* invocations of main() in one behaviour
MaxPlanUnits == 41   \* planner model: total units is 1..MaxPlanUnits
MaxPlanChunk == 3    \* planner model: chunk size is 1..MaxPlanChunk
MaxStoreKeys == 1    \* planner model: number of files in the probed store

Min(a, b) == IF a <= b THEN a ELSE b

(***************************************************************************)
(* Configurations                                                          *)
(***************************************************************************)
OffsetCfg(total, limit) == [total_units |-> total, chunk_size |-> limit]

DateCfg(first, last, years) ==
    [start_year |-> first, end_year |-> last, chunk_size |-> years]

ReferenceOffsetCfg == OffsetCfg(TOTAL_RECORDS, LIMIT)

ReferenceDateCfg == DateCfg(START_YEAR, END_YEAR, CHUNK_SIZE)

(***************************************************************************)
(* Chunk Planner                                                           *)
(***************************************************************************)
OffsetFilename(index) == <<"locations_", index, ".json">>

DateFilename(first, last) == <<"FIPS10003_avg_", first, "_to_", last, ".json">>

num_requests_floor(total, limit) == total \div limit

num_requests(total, limit) == (total + limit - 1) \div limit

offset_of(index, limit) == index * limit + 1

OffsetChunk(index, total, limit) ==
    [index    |-> index,
     offset   |-> offset_of(index, limit),
     last     |-> Min(offset_of(index, limit) + limit - 1, total),
     filename |-> OffsetFilename(index)]

OffsetPlan(total, limit) ==
    [k \in 1..num_requests(total, limit) |-> OffsetChunk(k - 1, total, limit)]

DateRange(current_year, last, years) ==
    LET end_year == Min(current_year + years - 1, last)
    IN  [start_year |-> current_year,
         end_year   |-> end_year,
         start_date |-> <<current_year, 1, 1>>,
         end_date   |-> <<end_year, 12, 31>>,
         filename   |-> DateFilename(current_year, end_year)]

window_open_strict(current_year, last) == current_year < last

window_open(current_year, last) == current_year <= last

RECURSIVE date_ranges_from(_, _, _, _)
date_ranges_from(ranges, current_year, last, years) ==
    IF window_open(current_year, last)
    THEN date_ranges_from(Append(ranges, DateRange(current_year, last, years)),
                          current_year + years, last, years)
    ELSE ranges

create_date_ranges(first, last, years) ==
    date_ranges_from(<<>>, first, last, years)

Plan(m, c) ==
    IF m = "offset"
    THEN OffsetPlan(c.total_units, c.chunk_size)
    ELSE create_date_ranges(c.start_year, c.end_year, c.chunk_size)

ChunkId(m, chunk) == IF m = "offset" THEN chunk.index ELSE chunk.filename

PlannedIds(m, plan) == {ChunkId(m, plan[k]) : k \in 1..Len(plan)}

(***************************************************************************)
(* Persisted Chunk Store and Resume Detector                               *)
(***************************************************************************)
Exists(st, filename) == filename \in DOMAIN st

\* a file: whether its JSON text was written in full, the value written, and
\* whether this invocation wrote it
FileEntry(complete, payload, fresh) ==
    [complete |-> complete, payload |-> payload, fresh |-> fresh]

WriteFile(st, filename, entry) ==
    [f \in DOMAIN st \cup {filename} |-> IF f = filename THEN entry ELSE st[f]]

check_existing_files_from_one(m, st) ==
    IF m = "offset"
    THEN {index \in 1..(PROBE_RANGE - 1) : Exists(st, OffsetFilename(index))}
    ELSE {f \in DOMAIN st : f[1] = "FIPS10003_avg_" /\ f[Len(f)] = ".json"}

check_existing_files(m, st) ==
    IF m = "offset"
    THEN {index \in 0..(PROBE_RANGE - 1) : Exists(st, OffsetFilename(index))}
    ELSE {f \in DOMAIN st : f[1] = "FIPS10003_avg_" /\ f[Len(f)] = ".json"}

already_exists_never(m, chunk, existing) == FALSE

\* `i in existing_files` / `filename in existing_files`
already_exists(m, chunk, existing) == ChunkId(m, chunk) \in existing

(***************************************************************************)
(* Responses of the remote API and decoded bodies                          *)
(***************************************************************************)
Responses ==
    {"transport",        \* connection error or timeout, no HTTP response
     "http_503", "http_429",
     "http_other",       \* any other HTTP error status (400, 401, 404, 500, ...)
     "ok_undecodable",   \* 2xx, body is not JSON
     "ok_empty",         \* 2xx, zero-length body
     "ok_results",       \* 2xx, JSON object with a results array of objects
     "ok_noresults",     \* 2xx, non-empty JSON object without a results key
     "ok_empty_object",  \* 2xx, {}
     "ok_null",          \* 2xx, null
     "ok_number",        \* 2xx, a non-zero number or true
     "ok_list"}          \* 2xx, a non-empty array not containing "results"

Json(type, keys, projected) ==
    [type |-> type, keys |-> keys, projected |-> projected]

\* Python's None, which is also what JSON null decodes to
None == Json("null", {}, FALSE)

NoError == "None"

\* json.loads(response.read().decode()) / response.json()
Decode(resp) ==
    CASE resp = "ok_results"      -> Json("object", {"metadata", "results"}, FALSE)
      [] resp = "ok_noresults"    -> Json("object", {"metadata"}, FALSE)
      [] resp = "ok_empty_object" -> Json("object", {}, FALSE)
      [] resp = "ok_null"         -> None
      [] resp = "ok_number"       -> Json("number", {}, FALSE)
      [] resp = "ok_list"         -> Json("array", {}, FALSE)

Decodable ==
    {"ok_results", "ok_noresults", "ok_empty_object", "ok_null", "ok_number",
     "ok_list"}

\* truth value of a decoded body in `if data`
Truthy(value) ==
    CASE value.type = "object" -> value.keys # {}
      [] value.type = "null"   -> FALSE
      [] value.type = "number" -> TRUE
      [] value.type = "array"  -> TRUE

\* `'results' in data` raises TypeError on a number
InRaises(value) == value.type = "number"

HasResults(value) == value.type = "object" /\ "results" \in value.keys

\* class of a response, as recorded in history
Class(resp) ==
    CASE resp \in {"transport", "ok_undecodable", "ok_empty"} -> "network"
      [] resp \in {"http_503", "http_429", "http_other"} -> resp
      [] resp \in {"ok_noresults", "ok_empty_object"} -> "ok_noresults"
      [] OTHER -> "ok"

\* open(filename, 'w') creates the file or truncates it to zero length
Truncated == FileEntry(FALSE, Json("nothing", {}, FALSE), TRUE)

(***************************************************************************)
(* Fetch Executor                                                          *)
(***************************************************************************)
Return(value, err, wait) ==
    [kind |-> "return", data |-> value, error |-> err, wait |-> wait]

Retry(wait) == [kind |-> "retry", data |-> None, error |-> NoError, wait |-> wait]

Raise == [kind |-> "raise", data |-> None, error |-> NoError, wait |-> 0]

retry_503_one_more(rc) == rc <= MAX_RETRIES

\* make_requests.py line 41
retry_503(rc) == rc < MAX_RETRIES

retry_429_one_fewer(rc) == rc < MAX_RETRIES - 1

\* make_requests.py line 52
retry_429(rc) == rc < MAX_RETRIES

\* make_requests.py line 61
retry_network(rc) == rc < MAX_RETRIES

backoff_wait_doubling(rc) == (2 ^ rc) * BACKOFF_STEP

\* make_requests.py line 42: wait_time = (retry_count + 1) * 5
backoff_wait(rc) == (rc + 1) * BACKOFF_STEP

is_503_or_server_error(resp) == resp \in {"http_503", "http_other"}

\* `e.code == 503`
is_503(resp) == resp = "http_503"

\* `e.code == 429`
is_429(resp) == resp = "http_429"

\* the `except urllib.error.HTTPError` branch
handle_http_error(resp, rc) ==
    IF is_503(resp)
    THEN IF retry_503(rc)
         THEN Retry(backoff_wait(rc))
         ELSE Return(None, "Max retries exceeded: HTTP Error 503", 0)
    ELSE IF is_429(resp)
         THEN IF retry_429(rc)
              THEN Retry(RATE_LIMIT_WAIT)
              ELSE Return(None, "HTTP Error 429", RATE_LIMIT_WAIT)
         ELSE Return(None, "HTTP Error", 0)

\* the `except Exception` branch
handle_exception(rc) ==
    IF retry_network(rc)
    THEN Retry(NETWORK_WAIT)
    ELSE Return(None, "Network error", 0)

\* one pass through make_api_request of make_requests.py on response resp
make_api_request_offset(resp, rc) ==
    CASE resp \in Decodable -> Return(Decode(resp), NoError, 0)
      [] resp \in {"http_503", "http_429", "http_other"} -> handle_http_error(resp, rc)
      [] OTHER -> handle_exception(rc)

\* the projection of fetch_monthly_data.py lines 74-86
Project(value) == Json("object", value.keys \cup {"results"}, TRUE)

\* make_api_request of fetch_monthly_data.py on response resp
make_api_request_date(resp) ==
    CASE resp \in {"transport", "http_503", "http_429", "http_other"} ->
            Return(None, "Request error", 0)
      [] resp = "ok_empty" -> Return(None, "Empty response", 0)
      [] resp = "ok_undecodable" -> Return(None, "JSON decode error", 0)
      [] Decode(resp).type = "object" -> Return(Project(Decode(resp)), NoError, 0)
      [] OTHER -> Raise

make_api_request(m, resp, rc) ==
    IF m = "offset" THEN make_api_request_offset(resp, rc)
    ELSE make_api_request_date(resp)

(***************************************************************************)
(* Run Controller: what main() does with the executor's result             *)
(***************************************************************************)
\* make_requests.py line 135 / fetch_monthly_data.py line 169
decide(m, value, err) ==
    IF m = "offset"
    THEN IF Truthy(value) /\ InRaises(value) THEN "raise"
         ELSE IF Truthy(value) /\ HasResults(value) THEN "save"
         ELSE "fail"
    ELSE IF Truthy(value) THEN "save" ELSE "fail"

\* an entry of failed_requests (a pair) / failed (a filename)
fetch_failure(m, chunk, err) ==
    IF m = "offset"
    THEN <<chunk.index, IF err = NoError THEN "Unknown error" ELSE err>>
    ELSE chunk.filename

save_failure(m, chunk) ==
    IF m = "offset" THEN <<chunk.index, "File save error">> ELSE chunk.filename

FailedId(m, entry) == IF m = "offset" THEN entry[1] ELSE entry

FailedIds(m, list) == {FailedId(m, list[k]) : k \in 1..Len(list)}

record_failed_dropped(list, entry) == list

\* failed_requests.append(...) / failed.append(...)
record_failed(list, entry) == Append(list, entry)

next_index_break(index, n, ok) == IF ok THEN index + 1 ELSE n

next_index_again(index, n, ok) == IF ok THEN index + 1 ELSE index

\* the for loop moves to the next planned chunk whatever the outcome was
next_index(index, n, ok) == index + 1

\* `if i < num_requests - 1` (0-based i) / `if i < len(date_ranges)` (1-based i)
delay_due(m, index, n) ==
    IF m = "offset" THEN index < n - 1 ELSE index + 1 < n

delay_seconds(m) == IF m = "offset" THEN DELAY_BETWEEN_REQUESTS ELSE DATE_DELAY

(***************************************************************************)
(* Initial states: one script, one configuration, a store left by earlier  *)
(* complete downloads                                                      *)
(***************************************************************************)
RunConfigs(m) ==
    IF m = "offset"
    THEN {OffsetCfg(t, l) : t \in 1..MaxUnits, l \in 1..MaxChunkSize}
    ELSE {DateCfg(START_YEAR, START_YEAR + t - 1, l) :
             t \in 1..MaxUnits, l \in 1..MaxChunkSize}

PriorPayload(m) ==
    IF m = "offset" THEN Decode("ok_results") ELSE Project(Decode("ok_results"))

PriorStore(m, names) == [f \in names |-> FileEntry(TRUE, PriorPayload(m), FALSE)]

PlannedFilenames(m, c) == {Plan(m, c)[k].filename : k \in 1..Len(Plan(m, c))}

\* how the previous invocation ended and, when it ended by printing its
\* report, what the report counted
NoReport == [completed |-> {}, failed |-> {}, storage_error |-> FALSE]

NoPrev == [ended |-> "none", report |-> NoReport]

FreshRun ==
    /\ pc = "start"
    /\ chunks = <<>>
    /\ existing_files = {}
    /\ i = 0
    /\ successful = 0
    /\ failed = <<>>
    /\ retry_count = 0
    /\ data = None
    /\ error = NoError
    /\ history = <<>>
    /\ waits = <<>>
    /\ completed = {}
    /\ invoked = {}
    /\ requests = 0
    /\ pauses = {}
    /\ storage_error = FALSE
    /\ final_files = {}

Init ==
    /\ mode \in {"offset", "date"}
    /\ cfg \in RunConfigs(mode)
    /\ store \in {PriorStore(mode, names) : names \in SUBSET PlannedFilenames(mode, cfg)}
    /\ run = 1
    /\ prev = NoPrev
    /\ FreshRun

(***************************************************************************)
(* main()                                                                  *)
(***************************************************************************)
Current == chunks[i + 1]

InLoop == pc = "loop" /\ i < Len(chunks)

\* lines 102-120 / 137-153: probe the store, plan, zero the report
Start ==
    /\ pc = "start"
    /\ existing_files' = check_existing_files(mode, store)
    /\ chunks' = Plan(mode, cfg)
    /\ i' = 0
    /\ successful' = 0
    /\ failed' = <<>>
    /\ pc' = "loop"
    /\ UNCHANGED <<mode, cfg, store, run, retry_count, data, error, history, waits,
                   completed, invoked, requests, pauses, storage_error, final_files, prev>>

\* lines 124-127 / 159-162: the file exists, count it and continue
Skip ==
    /\ InLoop
    /\ already_exists(mode, Current, existing_files)
    /\ successful' = successful + 1
    /\ completed' = completed \cup {ChunkId(mode, Current)}
    /\ i' = i + 1
    /\ UNCHANGED <<mode, cfg, store, run, pc, chunks, existing_files, failed,
                   retry_count, data, error, history, waits, invoked, requests,
                   pauses, storage_error, final_files, prev>>

\* line 133 / 167: call make_api_request
BeginFetch ==
    /\ InLoop
    /\ ~already_exists(mode, Current, existing_files)
    /\ pc' = "request"
    /\ retry_count' = 0
    /\ invoked' = invoked \cup {ChunkId(mode, Current)}
    /\ UNCHANGED <<mode, cfg, store, run, chunks, existing_files, i, successful,
                   failed, data, error, history, waits, completed, requests, pauses,
                   storage_error, final_files, prev>>

\* one request of make_api_request and what follows it up to the next request,
\* the start of the save, the recording of the failure or the uncaught exception
Attempt(resp) ==
    /\ pc = "request"
    /\ LET out == make_api_request(mode, resp, retry_count)
           verdict == IF out.kind = "return" THEN decide(mode, out.data, out.error)
                      ELSE out.kind
       IN  /\ requests' = requests + 1
           /\ history' = Append(history, Class(resp))
           /\ waits' = IF out.wait > 0 THEN Append(waits, out.wait) ELSE waits
           /\ retry_count' = IF out.kind = "retry" THEN retry_count + 1 ELSE retry_count
           /\ data' = out.data
           /\ error' = out.error
           /\ pc' = CASE verdict = "retry" -> "request"
                      [] verdict = "raise" -> "crashed"
                      [] verdict = "save"  -> "save_open"
                      [] verdict = "fail"  -> "delay"
           /\ failed' = IF verdict = "fail"
                        THEN record_failed(failed, fetch_failure(mode, Current, out.error))
                        ELSE failed
    /\ UNCHANGED <<mode, cfg, store, run, chunks, existing_files, i, successful,
                   completed, invoked, pauses, storage_error, final_files, prev>>

\* save_to_file / save_data up to open(filename, 'w')
SaveOpen(outcome) ==
    /\ pc = "save_open"
    /\ outcome = "makedirs_error" => mode = "offset"
    /\ store' = IF outcome = "ok"
                THEN WriteFile(store, Current.filename, Truncated)
                ELSE store
    /\ pc' = CASE outcome = "ok" -> "save_dump"
               [] outcome = "open_error" -> "delay"
               [] outcome = "makedirs_error" -> "crashed"
    /\ failed' = IF outcome = "open_error"
                 THEN record_failed(failed, save_failure(mode, Current))
                 ELSE failed
    /\ storage_error' = (storage_error \/ outcome # "ok")
    /\ UNCHANGED <<mode, cfg, run, chunks, existing_files, i, successful,
                   retry_count, data, error, history, waits, completed, invoked,
                   requests, pauses, final_files, prev>>

\* json.dump(data, f) and the close of the file, then lines 137-142 / 170-173
SaveDump(outcome) ==
    /\ pc = "save_dump"
    /\ store' = IF outcome = "ok"
                THEN WriteFile(store, Current.filename, FileEntry(TRUE, data, TRUE))
                ELSE store
    /\ successful' = IF outcome = "ok" THEN successful + 1 ELSE successful
    /\ completed' = IF outcome = "ok"
                    THEN completed \cup {ChunkId(mode, Current)}
                    ELSE completed
    /\ failed' = IF outcome = "ok" THEN failed
                 ELSE record_failed(failed, save_failure(mode, Current))
    /\ storage_error' = (storage_error \/ outcome # "ok")
    /\ pc' = "delay"
    /\ UNCHANGED <<mode, cfg, run, chunks, existing_files, i, retry_count, data,
                   error, history, waits, invoked, requests, pauses, final_files, prev>>

\* lines 150-153 / 178-181: sleep unless this was the last planned chunk, then
\* the next iteration
Delay ==
    /\ pc = "delay"
    /\ pauses' = IF delay_due(mode, i, Len(chunks))
                 THEN pauses \cup {[after |-> ChunkId(mode, Current),
                                    seconds |-> delay_seconds(mode)]}
                 ELSE pauses
    /\ i' = next_index(i, Len(chunks), ChunkId(mode, Current) \in completed)
    /\ pc' = "loop"
    /\ retry_count' = 0
    /\ data' = None
    /\ error' = NoError
    /\ history' = <<>>
    /\ waits' = <<>>
    /\ UNCHANGED <<mode, cfg, store, run, chunks, existing_files, successful,
                   failed, completed, invoked, requests, storage_error, final_files,
                   prev>>

\* lines 155-176 / 183-203: the loop is over, print the report
Finish ==
    /\ pc = "loop"
    /\ i >= Len(chunks)
    /\ pc' = "terminal"
    /\ final_files' = check_existing_files(mode, store)
    /\ UNCHANGED <<mode, cfg, store, run, chunks, existing_files, i, successful,
                   failed, retry_count, data, error, history, waits, completed,
                   invoked, requests, pauses, storage_error, prev>>

(***************************************************************************)
(* The operator runs the script again on the same directory                *)
(***************************************************************************)
Aged(st) == [f \in DOMAIN st |-> [st[f] EXCEPT !.fresh = FALSE]]

Reinvoke(ended) ==
    /\ run < MaxRuns
    /\ run' = run + 1
    /\ prev' = [ended |-> ended,
                report |-> IF ended = "terminal"
                           THEN [completed |-> completed,
                                 failed |-> FailedIds(mode, failed),
                                 storage_error |-> storage_error]
                           ELSE NoReport]
    /\ store' = Aged(store)
    /\ pc' = "start"
    /\ chunks' = <<>>
    /\ existing_files' = {}
    /\ i' = 0
    /\ successful' = 0
    /\ failed' = <<>>
    /\ retry_count' = 0
    /\ data' = None
    /\ error' = NoError
    /\ history' = <<>>
    /\ waits' = <<>>
    /\ completed' = {}
    /\ invoked' = {}
    /\ requests' = 0
    /\ pauses' = {}
    /\ storage_error' = FALSE
    /\ final_files' = {}
    /\ UNCHANGED <<mode, cfg>>

\* the process is killed while main() is running, and started again
Kill ==
    /\ pc \in {"loop", "request", "save_open", "save_dump", "delay"}
    /\ Reinvoke("killed")

\* the process has ended, by the report or by an uncaught exception, and is
\* started again
Rerun ==
    /\ pc \in {"terminal", "crashed"}
    /\ Reinvoke(pc)

Next ==
    \/ Start
    \/ Skip
    \/ BeginFetch
    \/ \E resp \in Responses : Attempt(resp)
    \/ \E outcome \in {"ok", "open_error", "makedirs_error"} : SaveOpen(outcome)
    \/ \E outcome \in {"ok", "error"} : SaveDump(outcome)
    \/ Delay
    \/ Finish
    \/ Kill
    \/ Rerun

Spec == Init /\ [][Next]_vars

(***************************************************************************)
(* The Chunk Planner and the Resume Detector applied to configurations and *)
(* stores drawn from bounded sets, the reference configuration among them  *)
(***************************************************************************)
PlanConfigs(m) ==
    IF m = "offset"
    THEN {OffsetCfg(t, l) : t \in 1..MaxPlanUnits, l \in 1..MaxPlanChunk}
            \cup {ReferenceOffsetCfg}
    ELSE {DateCfg(START_YEAR, START_YEAR + t - 1, l) :
             t \in 1..MaxPlanUnits, l \in 1..MaxPlanChunk}
            \cup {ReferenceDateCfg}

\* files a directory may hold: the planned ones, ones of the same naming
\* scheme that are not planned, and a file of another name
CandidateFiles(m, c) ==
    IF m = "offset"
    THEN {OffsetFilename(k) : k \in 0..(Len(Plan(m, c)) + 1)}
            \cup {<<"notes_", 0, ".txt">>}
    ELSE PlannedFilenames(m, c)
            \cup {DateFilename(c.start_year - 1, c.start_year - 1),
                  <<"notes_", 0, "_", 0, ".txt">>}

\* the subsets of S with at most k elements
RECURSIVE SubsetsUpTo(_, _)
SubsetsUpTo(S, k) ==
    IF k = 0 THEN {{}}
    ELSE LET smaller == SubsetsUpTo(S, k - 1)
         IN  smaller \cup {x \cup {e} : x \in smaller, e \in S}

ProbeStores(m, c) ==
    {PriorStore(m, names) : names \in SubsetsUpTo(CandidateFiles(m, c), MaxStoreKeys)}

InitPlan ==
    /\ mode \in {"offset", "date"}
    /\ cfg \in PlanConfigs(mode)
    /\ store \in ProbeStores(mode, cfg)
    /\ run = 1
    /\ prev = NoPrev
    /\ FreshRun

\* the planner applied to the configuration
PlanStep ==
    /\ pc = "start"
    /\ chunks' = Plan(mode, cfg)
    /\ pc' = "planned"
    /\ UNCHANGED <<mode, cfg, store, run, existing_files, i, successful, failed,
                   retry_count, data, error, history, waits, completed, invoked,
                   requests, pauses, storage_error, final_files, prev>>

\* check_existing_files() as main() calls it first
ProbeStep ==
    /\ pc = "planned"
    /\ existing_files' = check_existing_files(mode, store)
    /\ pc' = "probed"
    /\ UNCHANGED <<mode, cfg, store, run, chunks, i, successful, failed,
                   retry_count, data, error, history, waits, completed, invoked,
                   requests, pauses, storage_error, final_files, prev>>

\* check_existing_files() called again, as main() does for its summary
ProbeAgain ==
    /\ pc = "probed"
    /\ final_files' = check_existing_files(mode, store)
    /\ pc' = "reprobed"
    /\ UNCHANGED <<mode, cfg, store, run, chunks, existing_files, i, successful,
                   failed, retry_count, data, error, history, waits, completed,
                   invoked, requests, pauses, storage_error, prev>>

NextPlan == PlanStep \/ ProbeStep \/ ProbeAgain

SpecPlan == InitPlan /\ [][NextPlan]_vars

(***************************************************************************)
(* Properties                                                              *)
(***************************************************************************)
Last(seq) == seq[Len(seq)]

CurrentId == ChunkId(mode, Current)

\* the classes the specification calls transient failures
TransientClasses == {"http_503", "http_429", "network"}

AllTransient(h) == \A k \in 1..Len(h) : h[k] \in TransientClasses

RecordedFailed ==
    /\ pc = "delay"
    /\ Len(failed) > 0
    /\ FailedId(mode, Last(failed)) = CurrentId
    /\ CurrentId \notin completed

PendingAtInit ==
    {ChunkId(mode, chunks[k]) :
        k \in {j \in 1..Len(chunks) : ~already_exists(mode, chunks[j], existing_files)}}

C2_PermanentShortCircuit ==
    (history # <<>> /\ Last(history) = "http_other")
        => /\ pc = "delay"
           /\ data = None
           /\ error # NoError
           /\ RecordedFailed
           /\ Len(waits) = Len(history) - 1
           /\ Len(history) = 1 => waits = <<>>

C2_Witness ==
    /\ mode = "offset"
    /\ pc = "delay"
    /\ history = <<"http_other">>
    /\ waits = <<>>
    /\ requests = 1
    /\ RecordedFailed

\* a file that was written in full before this invocation started
PersistedBefore(filename) ==
    /\ Exists(store, filename)
    /\ store[filename].complete
    /\ ~store[filename].fresh

\* C3: after a run that was killed at any point, also during a file write,
\* with N of the M planned chunks persisted, the next invocation skips exactly
\* those N chunks and invokes the executor on exactly the other M - N.
C3_PartialRunSafety ==
    (prev.ended = "killed" /\ pc # "start")
        => /\ \A k \in 1..Len(chunks) :
                 already_exists(mode, chunks[k], existing_files)
                    <=> PersistedBefore(chunks[k].filename)
           /\ pc = "terminal"
                 => invoked = {ChunkId(mode, chunks[k]) :
                                 k \in {j \in 1..Len(chunks) :
                                           ~PersistedBefore(chunks[j].filename)}}

\* C4 as stated: when main() runs to its report twice in succession on the
\* same store, with no storage error in either run, the second run issues no
\* request and its completed set equals the first run's.
C4_ResumeIdempotence ==
    (pc = "terminal" /\ prev.ended = "terminal"
        /\ ~prev.report.storage_error /\ ~storage_error)
        => (requests = 0 /\ completed = prev.report.completed)

\* C4 amended: when main() runs to its report twice in succession on the same
\* store, with no storage error, and the first run recorded no failed chunk,
\* the second run invokes the executor on no chunk, issues no request, and its
\* completed set equals the first run's (a chunk the first run recorded as
\* failed is fetched again by the second).
C4_ResumeIdempotenceAfterCleanRun ==
    (prev.ended = "terminal" /\ ~prev.report.storage_error
        /\ prev.report.failed = {})
        => /\ requests = 0
           /\ invoked = {}
           /\ pc \in {"start", "loop", "terminal"}
           /\ pc = "terminal" => (completed = prev.report.completed /\ failed = <<>>)

C4_Witness ==
    /\ mode = "date"
    /\ pc = "terminal"
    /\ prev.ended = "terminal"
    /\ prev.report.failed = {}
    /\ Len(chunks) = 2
    /\ completed = PlannedIds(mode, chunks)
    /\ \E f \in DOMAIN store : store[f].payload # PriorPayload(mode)

\* C5: whatever the response to a request, make_api_request returns a
\* (payload, error) pair and main() records the chunk and goes on: no response
\* ends main() by an uncaught exception.
C5_NoUncaughtFault ==
    ~(pc = "crashed" /\ history # <<>> /\ decide(mode, data, error) # "save")

C7_RunReport ==
    /\ completed \cap FailedIds(mode, failed) = {}
    /\ Cardinality(FailedIds(mode, failed)) = Len(failed)
    /\ successful = Cardinality(completed)
    /\ completed \cup FailedIds(mode, failed) \subseteq PlannedIds(mode, chunks)
    /\ pc = "terminal"
          => /\ completed \cup FailedIds(mode, failed) = PlannedIds(mode, chunks)
             /\ successful + Len(failed) = Len(chunks)

C7_Witness ==
    /\ pc = "terminal"
    /\ Len(chunks) = 2
    /\ successful = 1
    /\ Len(failed) = 1
    /\ existing_files = {}

\* the least n with n * b >= a
CeilDiv(a, b) == CHOOSE n \in 0..a : n * b >= a /\ (n - 1) * b < a

\* C8: for total_units >= 1 and chunk_size >= 1 the offset-mode planner yields
\* exactly ceil(total_units / chunk_size) chunks, chunk i (0-indexed) covers
\* offsets i*chunk_size + 1 through min((i+1)*chunk_size, total_units), and
\* every offset of 1..total_units lies in exactly one chunk; 38859 and 1000
\* give 39 chunks, the last covering 38001-38859.
C8_OffsetPartition ==
    (mode = "offset" /\ pc # "start")
        => LET total == cfg.total_units
               size  == cfg.chunk_size
               n     == Len(chunks)
           IN  /\ n = CeilDiv(total, size)
               /\ \A k \in 1..n :
                     /\ chunks[k].index = k - 1
                     /\ chunks[k].offset = (k - 1) * size + 1
                     /\ chunks[k].last = Min(k * size, total)
                     /\ chunks[k].offset <= chunks[k].last
               /\ chunks[1].offset = 1
               /\ chunks[n].last = total
               /\ \A k \in 1..(n - 1) : chunks[k + 1].offset = chunks[k].last + 1
               /\ total <= MaxPlanUnits
                     => \A u \in 1..total :
                           Cardinality({k \in 1..n : chunks[k].offset <= u
                                                       /\ u <= chunks[k].last}) = 1
               /\ cfg = ReferenceOffsetCfg
                     => (n = 39 /\ chunks[1].offset = 1 /\ chunks[1].last = 1000
                           /\ chunks[39].offset = 38001 /\ chunks[39].last = 38859)

C8_Witness ==
    /\ mode = "offset"
    /\ pc = "planned"
    /\ cfg = OffsetCfg(7, 3)
    /\ Len(chunks) = 3
    /\ chunks[3].offset = 7
    /\ chunks[3].last = 7

\* C9: for start_year <= end_year and years_per_chunk >= 1 create_date_ranges
\* returns its chunks in increasing order, chunk i (0-indexed) covers the
\* years start_year + i*years_per_chunk through
\* min(start_year + (i+1)*years_per_chunk - 1, end_year), every year of
\* start_year..end_year lies in exactly one chunk, no chunk starts after
\* end_year, and the filenames are pairwise distinct; 1938, 2018 and 10 give
\* 9 chunks, the last covering 2018 only.
C9_DatePartition ==
    (mode = "date" /\ pc # "start")
        => LET first == cfg.start_year
               last  == cfg.end_year
               years == cfg.chunk_size
               n     == Len(chunks)
           IN  /\ n >= 1
               /\ \A k \in 1..n :
                     /\ chunks[k].start_year = first + (k - 1) * years
                     /\ chunks[k].end_year = Min(first + k * years - 1, last)
                     /\ chunks[k].start_year <= last
                     /\ chunks[k].start_date = <<chunks[k].start_year, 1, 1>>
                     /\ chunks[k].end_date = <<chunks[k].end_year, 12, 31>>
               /\ \A k \in 1..(n - 1) : chunks[k].end_year < chunks[k + 1].start_year
               /\ \A y \in first..last :
                     Cardinality({k \in 1..n : chunks[k].start_year <= y
                                                 /\ y <= chunks[k].end_year}) = 1
               /\ \A j, k \in 1..n : j # k => chunks[j].filename # chunks[k].filename
               /\ cfg = ReferenceDateCfg
                     => (n = 9 /\ chunks[1].start_date = <<1938, 1, 1>>
                           /\ chunks[1].end_date = <<1947, 12, 31>>
                           /\ chunks[9].start_date = <<2018, 1, 1>>
                           /\ chunks[9].end_date = <<2018, 12, 31>>)

C9_Witness ==
    /\ mode = "date"
    /\ pc = "planned"
    /\ cfg = ReferenceDateCfg
    /\ Len(chunks) = 9
    /\ chunks[9].start_year = 2018
    /\ chunks[9].end_year = 2018

\* C10: for every configuration and every store, check_existing_files reports
\* a planned chunk as present if and only if its file exists (every planned
\* index 0..num_requests-1 in offset mode, every planned filename in date
\* mode), a second call on the unchanged store gives the same result, and the
\* store is as it was.
C10_ResumeDetector ==
    /\ pc \in {"probed", "reprobed"}
          => /\ \A k \in 1..Len(chunks) :
                   already_exists(mode, chunks[k], existing_files)
                      <=> Exists(store, chunks[k].filename)
             /\ \A f \in DOMAIN store : store[f] = PriorStore(mode, DOMAIN store)[f]
    /\ pc = "reprobed" => final_files = existing_files

\* the file of the current chunk has been opened or written by this invocation
WrittenNow(filename) == Exists(store, filename) /\ store[filename].fresh

\* C11: in offset mode and in date mode alike, a 2xx response whose decoded
\* body is an object without a results key makes the chunk Failed: it is
\* recorded in the failed list, no further request is made for it, and no file
\* is opened or written for it.
C11_MissingResultsKey ==
    (history # <<>> /\ Last(history) = "ok_noresults")
        => /\ pc = "delay"
           /\ RecordedFailed
           /\ ~WrittenNow(Current.filename)

\* the error details make_api_request can return, and the absent one
ErrorDetails ==
    {"Max retries exceeded: HTTP Error 503", "HTTP Error 429", "HTTP Error",
     "Network error", "Request error", "Empty response", "JSON decode error",
     NoError}

\* the fetch of the current chunk succeeded and main() went on to save it
FetchSucceeded == history # <<>> /\ Last(history) \in {"ok", "ok_noresults"}
                    /\ decide(mode, data, error) = "save"

\* C12: when the fetch of a chunk succeeds and the write of its file fails, in
\* offset mode and in date mode alike, the chunk is not counted as completed
\* and the failed list gets an entry for it that differs from every entry a
\* failed fetch of that chunk can produce.
C12_PersistenceFailure ==
    (FetchSucceeded /\ pc \in {"delay", "crashed"} /\ CurrentId \notin completed)
        => /\ pc = "delay"
           /\ RecordedFailed
           /\ Last(failed) \notin {fetch_failure(mode, Current, e) : e \in ErrorDetails}

\* C13: in every state, those left by a kill inside save_to_file / save_data
\* included, a file exists in the store only if its payload was written in
\* full, and check_existing_files has reported no partially written file.
C13_AtomicPersistence ==
    /\ \A f \in DOMAIN store : store[f].complete
    /\ \A k \in 1..Len(chunks) :
          already_exists(mode, chunks[k], existing_files)
             => (Exists(store, chunks[k].filename) => store[chunks[k].filename].complete)

\* make_api_request has returned to main() for the current chunk
Returned == history # <<>> /\ pc \in {"save_open", "save_dump", "delay"}

\* C14: whenever make_api_request has returned, exactly one of the payload and
\* the error detail is present: never neither, never both.
C14_FetchOutcome ==
    Returned => ((data # None) <=> (error = NoError))

\* C15: in offset mode one call of make_api_request makes at least 1 and at
\* most MAX_RETRIES + 1 requests whatever the responses are, the retry budget
\* being shared by 503, 429 and transport errors; a run makes at most
\* MAX_RETRIES + 1 requests per chunk it invokes the executor on, hence at
\* most P * (MAX_RETRIES + 1) for P pending chunks, and it never ends short of
\* Terminal.
C15_AttemptBound ==
    mode = "offset"
        => /\ Len(history) <= MAX_RETRIES + 1
           /\ retry_count <= MAX_RETRIES
           /\ Returned => Len(history) >= 1
           /\ requests <= Cardinality(invoked) * (MAX_RETRIES + 1)
           /\ invoked \subseteq PendingAtInit
           /\ pc # "crashed"

\* all but the last element of a sequence
Front(seq) == SubSeq(seq, 1, Len(seq) - 1)

\* C16: in offset mode, while the first k responses for a chunk are transient
\* failures and k <= MAX_RETRIES, the executor goes on to attempt k + 1; when
\* response k + 1 is a 2xx with a body containing results, the call returns it
\* with no error after exactly k + 1 attempts and no further request is made
\* for the chunk, main() saves it, and once the write has succeeded the file
\* holds the payload and the chunk is counted as completed.
C16_Recovery ==
    mode = "offset"
        => /\ (AllTransient(history) /\ Len(history) <= MAX_RETRIES
                  /\ pc \in {"request", "delay"})
                 => (pc = "request" /\ retry_count = Len(history))
           /\ (history # <<>> /\ Last(history) = "ok" /\ HasResults(data)
                  /\ AllTransient(Front(history)))
                 => /\ Len(history) <= MAX_RETRIES + 1
                    /\ retry_count = Len(history) - 1
                    /\ error = NoError
                    /\ decide(mode, data, error) = "save"
                    /\ pc \in {"save_open", "save_dump", "delay", "crashed"}
                    /\ pc = "delay"
                          => \/ /\ CurrentId \in completed
                                /\ store[Current.filename] = FileEntry(TRUE, data, TRUE)
                             \/ /\ RecordedFailed
                                /\ Last(failed) = save_failure(mode, Current)

C16_Witness ==
    /\ mode = "offset"
    /\ pc = "delay"
    /\ history = <<"http_503", "http_503", "ok">>
    /\ requests = 3
    /\ CurrentId \in completed
    /\ store[Current.filename].complete

C18_WaitsEqualRetries ==
    mode = "offset"
        => /\ Len(waits) = retry_count
           /\ (Returned /\ \A n \in 1..Len(history) : history[n] = "http_429")
                 => waits = [n \in 1..MAX_RETRIES |-> RATE_LIMIT_WAIT]

\* the chunks the inter-request delay was slept after
PausedAfter == {p.after : p \in pauses}

\* positions in the plan of the chunks the executor was invoked on
ExecutedPositions == {k \in 1..Len(chunks) : ChunkId(mode, chunks[k]) \in invoked}

\* C19: in every run, whatever chunks the store already holds, every pause is
\* the fixed delay of 2 seconds, none is taken for a skipped chunk, one is
\* taken after every executed chunk that is followed by another executed
\* chunk, whether it succeeded or failed, and none after the last chunk
\* executed in the run.
C19_InterRequestSpacing ==
    /\ \A p \in pauses : p.seconds = 2 /\ p.after \in invoked
    /\ pc = "terminal"
          => PausedAfter =
                {ChunkId(mode, chunks[k]) :
                    k \in {j \in ExecutedPositions :
                              \E later \in ExecutedPositions : later > j}}

\* C20: a chunk whose file exists when the run starts is counted as completed
\* when the loop reaches it, the executor is never invoked on it, and its file
\* is not opened or written at any later state of the run; every file the run
\* opens or writes is that of a planned chunk that had no file at the start,
\* on which the executor was invoked and whose fetch succeeded.
C20_SkipLeavesStore ==
    pc # "start"
        => /\ \A k \in 1..Len(chunks) :
                 LET id == ChunkId(mode, chunks[k])
                     filename == chunks[k].filename
                 IN  /\ id \in existing_files
                           => /\ id \notin invoked
                              /\ Exists(store, filename)
                              /\ ~store[filename].fresh
                              /\ k <= i => id \in completed
                     /\ WrittenNow(filename)
                           => /\ id \notin existing_files
                              /\ id \in invoked
                              /\ k <= i + 1
                              /\ k = i + 1 => FetchSucceeded
           /\ \A f \in DOMAIN store :
                 store[f].fresh => \E k \in 1..Len(chunks) : chunks[k].filename = f

C20_Witness ==
    /\ pc = "terminal"
    /\ Len(chunks) = 2
    /\ ChunkId(mode, chunks[1]) \in existing_files
    /\ ChunkId(mode, chunks[1]) \in completed
    /\ ChunkId(mode, chunks[2]) \in invoked \cap completed
    /\ requests >= 1
    /\ ~store[chunks[1].filename].fresh
    /\ store[chunks[2].filename].fresh

\* positions in the plan after the chunk the loop is at
LaterPositions == {k \in 1..Len(chunks) : k > i + 1}

\* the files other than that of the current chunk are as they were
OthersUntouched ==
    \A f \in DOMAIN store' :
        f # Current.filename => (f \in DOMAIN store /\ store'[f] = store[f])

\* one step of a run, as C21 constrains it
C21_Step ==
    run' = run
        => /\ i' \in {i, i + 1}
           /\ i' # i => (pc \in {"loop", "delay"} /\ pc' = "loop")
           /\ requests' # requests
                 => /\ requests' = requests + 1
                    /\ pc = "request"
                    /\ i' = i
                    /\ CurrentId \in invoked
           /\ store' # store
                 => /\ pc \in {"save_open", "save_dump"}
                    /\ i' = i
                    /\ OthersUntouched
           /\ pc' = "request"
                 => /\ \A k \in LaterPositions :
                          /\ ChunkId(mode, chunks[k]) \notin invoked'
                          /\ ~WrittenNow(chunks[k].filename)
                    /\ pc = "loop"
                          => /\ CurrentId \notin invoked
                             /\ CurrentId \notin completed \cup FailedIds(mode, failed)
                             /\ history = <<>>

\* C21: within one run the loop index never goes back; every request is made
\* inside the one executor call in progress, for the chunk the loop is at, and
\* every write is to that chunk's file, so all requests and the write of a
\* chunk come before the first request for any later planned chunk and no two
\* requests overlap; the executor is invoked on a chunk at most once per run,
\* a chunk recorded as failed is not executed again in that run.
C21_SequentialOrder == [][C21_Step]_vars

C21_Witness ==
    /\ pc = "terminal"
    /\ Len(chunks) = 2
    /\ invoked = PlannedIds(mode, chunks)
    /\ requests >= 4
    /\ Len(failed) = 1
    /\ FailedId(mode, failed[1]) = ChunkId(mode, chunks[1])
    /\ WrittenNow(chunks[2].filename)

====
